---------------------------- MODULE Spec2Model ----------------------------
(***************************************************************************)
(* BuildBurn: CI cost attribution (CalculateCost), runner rate resolution  *)
(* (RunnerRate, rateForOS, resolveRate), the structured recommendation     *)
(* detectors (DetectCacheMiss, DetectLongCheckout, DetectDuplicateSteps,   *)
(* DetectExpensiveOS, GenerateRecommendations, monthlyScale) and the       *)
(* narrative engine (Analyze).                                             *)
(*                                                                         *)
(* Units.  A rate is an integer number of milli-dollars per minute         *)
(* (0.008 $/min = 8).  A JobAnalysis/StepAnalysis Duration is a whole      *)
(* number of minutes, so a cost (minutes * rate) is an integer number of   *)
(* milli-dollars.  A Job/Step instant (StartedAt, CompletedAt) is a whole  *)
(* number of seconds.  Quotients (the 30-day projection, the monthly scale,*)
(* the savings estimates) are exact rationals [num, den] in lowest terms;  *)
(* float64 rounding is not modelled.                                       *)
(*                                                                         *)
(* Text that the code inspects (runner labels, the default OS, the step    *)
(* names of the detectors) is a sequence of one-character strings, so that *)
(* strings.ToLower and strings.Contains are computed.  Names that the code *)
(* only copies or uses as map keys are TLA+ strings.                       *)
(***************************************************************************)
EXTENDS Integers, Sequences, FiniteSets, TLC

VARIABLES pc, called, analyses, defaultOS, observationDays, report,
          labels, rate, cr, recs, scale, allJobs, lookback, narrative

vars == <<pc, called, analyses, defaultOS, observationDays, report,
          labels, rate, cr, recs, scale, allJobs, lookback, narrative>>

costVars == <<analyses, defaultOS, observationDays, report>>
rateVars == <<labels, rate>>
recVars  == <<cr, recs, scale>>
anVars   == <<allJobs, lookback, narrative>>

(***************************************************************************)
(* Bounds of the model.                                                    *)
(***************************************************************************)
MaxBuild == 5       \* workflows plus jobs of an aggregation input
MaxLabels == 2      \* labels per job
MaxRankSteps == 6   \* steps of the one job of the ranking inputs
MaxRecSteps == 2    \* steps per job of the detector inputs
MaxRecJobs == 3     \* jobs of the detector inputs
MaxTopNames == 11   \* distinct step names of the step-total inputs of Analyze

(***************************************************************************)
(* Generic helpers.                                                        *)
(***************************************************************************)
SeqUpTo(n, S) == UNION {[1..k -> S] : k \in 0..n}

Max(a, b) == IF a >= b THEN a ELSE b

Min(a, b) == IF a <= b THEN a ELSE b

RECURSIVE GCD(_, _)
GCD(a, b) == IF b = 0 THEN a ELSE GCD(b, a % b)

\* The rational n/d (d > 0, n >= 0) in lowest terms.
Rat(n, d) == LET g == GCD(n, d) IN [num |-> n \div g, den |-> d \div g]

RatMul(q, k) == Rat(q.num * k, q.den)

RatDiv(q, k) == Rat(q.num, q.den * k)

RatAdd(p, q) == Rat(p.num * q.den + q.num * p.den, p.den * q.den)

\* p < q for rationals with positive denominators.
RatLess(p, q) == p.num * q.den < q.num * p.den

RECURSIVE ConcatAll(_)
ConcatAll(ss) == IF ss = <<>> THEN <<>> ELSE Head(ss) \o ConcatAll(Tail(ss))

RECURSIVE SumMap(_)
SumMap(m) ==
    IF DOMAIN m = {} THEN 0
    ELSE LET k == CHOOSE x \in DOMAIN m : TRUE
         IN m[k] + SumMap([x \in DOMAIN m \ {k} |-> m[x]])

(***************************************************************************)
(* strings.ToLower and strings.Contains on sequences of characters.        *)
(***************************************************************************)
UpperChars == <<"A","B","C","D","E","F","G","H","I","J","K","L","M",
                "N","O","P","Q","R","S","T","U","V","W","X","Y","Z">>
LowerChars == <<"a","b","c","d","e","f","g","h","i","j","k","l","m",
                "n","o","p","q","r","s","t","u","v","w","x","y","z">>

LowerChar(c) ==
    IF \E i \in DOMAIN UpperChars : UpperChars[i] = c
    THEN LowerChars[CHOOSE i \in DOMAIN UpperChars : UpperChars[i] = c]
    ELSE c

ToLower(s) == [i \in DOMAIN s |-> LowerChar(s[i])]

Contains(s, sub) ==
    \E i \in 0..(Len(s) - Len(sub)) : SubSeq(s, i + 1, i + Len(sub)) = sub

kwMacos == <<"m","a","c","o","s">>
kwWindows == <<"w","i","n","d","o","w","s">>

(***************************************************************************)
(* Pricing constants and rate resolution.                                  *)
(***************************************************************************)
RateLinux == 8
RateWindows == 16
RateMacOS == 80

\* RunnerRate: the first label that names a platform decides.
RECURSIVE RunnerRateFrom(_, _)
RunnerRateFrom(ls, i) ==
    IF i > Len(ls) THEN 8
    ELSE LET low == ToLower(ls[i])
         IN IF Contains(low, kwMacos) THEN 80
            ELSE IF Contains(low, kwWindows) THEN 16
            ELSE RunnerRateFrom(ls, i + 1)

\* A plausible slip: macOS looked for in all labels before windows in any.
RunnerRateAnyMac(ls) ==
    IF \E i \in DOMAIN ls : Contains(ToLower(ls[i]), kwMacos) THEN 80
    ELSE IF \E i \in DOMAIN ls : Contains(ToLower(ls[i]), kwWindows) THEN 16
    ELSE 8

RunnerRate(ls) == RunnerRateFrom(ls, 1)

rateForOS(osLabel) ==
    LET low == ToLower(osLabel)
    IN IF Contains(low, kwMacos) THEN RateMacOS
       ELSE IF Contains(low, kwWindows) THEN RateWindows
       ELSE RateLinux

\* A plausible slip: the default OS also decides when no label names a platform.
resolveRateFallThrough(ls, os) ==
    IF Len(ls) > 0 /\ RunnerRate(ls) # 8 THEN RunnerRate(ls) ELSE rateForOS(os)

resolveRate(ls, os) ==
    IF Len(ls) > 0 THEN RunnerRate(ls) ELSE rateForOS(os)

(***************************************************************************)
(* CalculateCost.                                                          *)
(***************************************************************************)
TopLimit == 5

\* A plausible slip: a negative window is taken by its absolute value.
NormalizeDaysAbs(days) == IF days = 0 THEN 1 ELSE IF days < 0 THEN -days ELSE days

\* observationDays <= 0 is replaced by 1.
NormalizeDays(days) == IF days <= 0 THEN 1 ELSE days

\* A plausible slip: only a negative duration is skipped.
SkipJobNegativeOnly(jobMinutes) == jobMinutes < 0

\* The guards of the two `continue` statements.
SkipJob(jobMinutes) == jobMinutes <= 0

SkipStep(stepMinutes) == stepMinutes <= 0

\* A plausible slip: m[k] = v, the value under a repeated key is replaced.
MapAddOverwrite(m, k, v) ==
    [x \in DOMAIN m \cup {k} |-> IF x = k THEN v ELSE m[x]]

\* A plausible slip: a zero amount is not recorded.
MapAddSkipZero(m, k, v) ==
    IF v = 0 THEN m
    ELSE [x \in DOMAIN m \cup {k} |->
             IF x = k THEN (IF k \in DOMAIN m THEN m[k] ELSE 0) + v ELSE m[x]]

\* m[k] += v on a Go map: a missing key reads as 0 and is created.

MapAdd(m, k, v) ==
    [x \in DOMAIN m \cup {k} |->
        IF x = k THEN (IF k \in DOMAIN m THEN m[k] ELSE 0) + v ELSE m[x]]

EmptyMap == [x \in {} |-> 0]

\* The inner loop over job.Steps: appends one entry per step of positive duration.
RECURSIVE StepLoop(_, _, _, _, _)
StepLoop(wfName, job, r, allSteps, k) ==
    IF k > Len(job.Steps) THEN allSteps
    ELSE LET step == job.Steps[k]
             stepMinutes == step.Duration
         IN IF SkipStep(stepMinutes)
            THEN StepLoop(wfName, job, r, allSteps, k + 1)
            ELSE StepLoop(wfName, job, r,
                          Append(allSteps, [Workflow |-> wfName,
                                            Job |-> job.Name,
                                            Step |-> step.Name,
                                            Cost |-> stepMinutes * r,
                                            Minutes |-> stepMinutes]),
                          k + 1)

\* The loop over wf.Jobs; acc = [PerJob, wfCost, allSteps].
RECURSIVE JobLoop(_, _, _, _)
JobLoop(wf, os, acc, j) ==
    IF j > Len(wf.Jobs) THEN acc
    ELSE LET job == wf.Jobs[j]
             r == resolveRate(job.Labels, os)
             jobMinutes == job.Duration
         IN IF SkipJob(jobMinutes)
            THEN JobLoop(wf, os, acc, j + 1)
            ELSE LET jobCost == jobMinutes * r
                 IN JobLoop(wf, os,
                            [PerJob |-> MapAdd(acc.PerJob, job.Name, jobCost),
                             wfCost |-> acc.wfCost + jobCost,
                             allSteps |-> StepLoop(wf.Name, job, r, acc.allSteps, 1)],
                            j + 1)

\* The outer loop; rep = [PerJob, PerWorkflow, TotalCost, allSteps].
RECURSIVE WorkflowLoop(_, _, _, _)
WorkflowLoop(as, os, rep, i) ==
    IF i > Len(as) THEN rep
    ELSE LET wf == as[i]
             acc == JobLoop(wf, os, [PerJob |-> rep.PerJob, wfCost |-> 0,
                                     allSteps |-> rep.allSteps], 1)
         IN WorkflowLoop(as, os,
                         [PerJob |-> acc.PerJob,
                          PerWorkflow |-> MapAdd(rep.PerWorkflow, wf.Name, acc.wfCost),
                          TotalCost |-> rep.TotalCost + acc.wfCost,
                          allSteps |-> acc.allSteps],
                         i + 1)

\* sort.Slice with less(i, j) = sorted[i].Cost > sorted[j].Cost.  sort.Slice is
\* documented as not stable, and the order it gives to equal elements depends on
\* the length and on the Go release: every arrangement of the entries in which no
\* entry precedes a more expensive one is a possible result.
RECURSIVE SortedArrangements(_, _)
SortedArrangements(s, idx) ==
    IF idx = {} THEN {<<>>}
    ELSE LET top == {i \in idx : \A j \in idx : ~(s[j].Cost > s[i].Cost)}
         IN UNION {{<<s[i]>> \o t : t \in SortedArrangements(s, idx \ {i})} : i \in top}

SortSlice(s) == SortedArrangements(s, DOMAIN s)

\* A plausible slip: the list is not cut.
TopOfKeepAll(sorted) == sorted

\* sorted[:top] with top = min(5, len(sorted)).

TopOf(sorted) ==
    LET top == IF Len(sorted) < TopLimit THEN Len(sorted) ELSE TopLimit
    IN SubSeq(sorted, 1, top)

\* dailyCost := TotalCost / float64(observationDays); ProjectedCost30 = dailyCost * 30
Projection(total, days) == RatMul(RatDiv(Rat(total, 1), days), 30)

\* The set of reports CalculateCost can return (one per result of sort.Slice).
CalculateCost(as, os, days) ==
    LET d == NormalizeDays(days)
        rep == WorkflowLoop(as, os, [PerJob |-> EmptyMap, PerWorkflow |-> EmptyMap,
                                     TotalCost |-> 0, allSteps |-> <<>>], 1)
    IN {[PerStep |-> rep.allSteps,
         PerJob |-> rep.PerJob,
         PerWorkflow |-> rep.PerWorkflow,
         TotalCost |-> rep.TotalCost,
         ProjectedCost30 |-> Projection(rep.TotalCost, d),
         TopSteps |-> TopOf(sorted)] : sorted \in SortSlice(rep.allSteps)}

(***************************************************************************)
(* The structured recommendation detectors.                                *)
(***************************************************************************)
kwInstall == <<"i","n","s","t","a","l","l">>
kwNpmCi == <<"n","p","m"," ","c","i">>
kwPipInstall == <<"p","i","p"," ","i","n","s","t","a","l","l">>
kwGoModDownload == <<"g","o"," ","m","o","d"," ","d","o","w","n","l","o","a","d">>

keywords == <<kwInstall, kwNpmCi, kwPipInstall, kwGoModDownload>>

\* A plausible slip: an unusable window scales to nothing.
monthlyScaleZero(days) == IF days <= 0 THEN Rat(0, 1) ELSE Rat(30, days)

\* monthlyScale: the multiplier from the observed window to a month.
monthlyScale(days) == IF days <= 0 THEN Rat(1, 1) ELSE Rat(30, days)

\* t.Sub(u).Seconds() on instants held in whole seconds.
SubSeconds(t, u) == t - u

\* The body of DetectCacheMiss for one step: the findings it appends.
CacheMissOfStep(j, s, days) ==
    LET r == RunnerRate(j.Labels)
        durSec == SubSeconds(s.CompletedAt, s.StartedAt)
        sn == ToLower(s.Name)
        matched == \E i \in DOMAIN keywords : Contains(sn, keywords[i])
        sc == monthlyScale(days)
    IN IF durSec <= 60 THEN <<>>
       ELSE IF ~matched THEN <<>>
       ELSE <<[RuleID |-> "cache-miss",
               Severity |-> "high",
               \* (durSec * 0.7) / 60.0 * rate * scale, in milli-dollars
               EstimatedMonthlySavings |-> Rat(durSec * 7 * r * sc.num, 10 * 60 * sc.den),
               Fix |-> <<"Add actions/cache for step '", s.Name, "' (took ", durSec,
                         "s). Caching dependencies can reduce this step by ~70%.">>]>>

DetectCacheMiss(c) ==
    ConcatAll([j \in DOMAIN c.Jobs |->
                 ConcatAll([k \in DOMAIN c.Jobs[j].Steps |->
                              CacheMissOfStep(c.Jobs[j], c.Jobs[j].Steps[k], c.Days)])])

kwCheckout == <<"c","h","e","c","k","o","u","t">>

\* The body of DetectLongCheckout for one step.
LongCheckoutOfStep(j, s, days) ==
    LET r == RunnerRate(j.Labels)
        durSec == SubSeconds(s.CompletedAt, s.StartedAt)
        sn == ToLower(s.Name)
        sc == monthlyScale(days)
    IN IF durSec <= 30 THEN <<>>
       ELSE IF ~Contains(sn, kwCheckout) THEN <<>>
       ELSE <<[RuleID |-> "long-checkout",
               Severity |-> "low",
               \* (durSec * 0.5) / 60.0 * rate * scale, in milli-dollars
               EstimatedMonthlySavings |-> Rat(durSec * 5 * r * sc.num, 10 * 60 * sc.den),
               Fix |-> <<"Use shallow clone (fetch-depth: 1) for step '", s.Name,
                         "' (took ", durSec,
                         "s). This can cut checkout time by ~50%.">>]>>

DetectLongCheckout(c) ==
    ConcatAll([j \in DOMAIN c.Jobs |->
                 ConcatAll([k \in DOMAIN c.Jobs[j].Steps |->
                              LongCheckoutOfStep(c.Jobs[j], c.Jobs[j].Steps[k], c.Days)])])

\* A plausible slip: the jobs that hold a step are counted by position, not by name.
StepJobsByPosition(c, stepName) ==
    {j \in DOMAIN c.Jobs :
        \E k \in DOMAIN c.Jobs[j].Steps : c.Jobs[j].Steps[k].Name = stepName}

\* stepJobs[stepName]: the set of the names of the jobs that hold a step so named.
StepJobs(c, stepName) ==
    {c.Jobs[j].Name : j \in {i \in DOMAIN c.Jobs :
        \E k \in DOMAIN c.Jobs[i].Steps : c.Jobs[i].Steps[k].Name = stepName}}

\* The keys of stepJobs.
StepJobsKeys(c) ==
    UNION {{c.Jobs[j].Steps[k].Name : k \in DOMAIN c.Jobs[j].Steps} : j \in DOMAIN c.Jobs}

\* The orders in which `range` may visit the keys of a Go map: all of them.
RECURSIVE RangeOrders(_)
RangeOrders(S) ==
    IF S = {} THEN {<<>>}
    ELSE UNION {{<<x>> \o t : t \in RangeOrders(S \ {x})} : x \in S}

DuplicateFinding(c, stepName) ==
    LET jobs == StepJobs(c, stepName)
    IN [RuleID |-> "duplicate-steps",
        Severity |-> "medium",
        \* float64(len(jobs)-1) * 5.0 dollars, in milli-dollars
        EstimatedMonthlySavings |-> Rat((Cardinality(jobs) - 1) * 5000, 1),
        Fix |-> <<"Step '", stepName, "' appears in ", Cardinality(jobs),
                  " jobs. Consider using a matrix strategy or reusable workflow to reduce duplication.">>]

\* The set of lists DetectDuplicateSteps can return (one per order of the map).
DetectDuplicateSteps(c) ==
    LET dup == {n \in StepJobsKeys(c) : ~(Cardinality(StepJobs(c, n)) < 2)}
    IN {[i \in DOMAIN order |-> DuplicateFinding(c, order[i])] : order \in RangeOrders(dup)}

\* isMac of DetectExpensiveOS: some label contains "macos".
IsMac(ls) == \E i \in DOMAIN ls : Contains(ToLower(ls[i]), kwMacos)

\* The body of DetectExpensiveOS for one job; durMin = seconds / 60.
ExpensiveOSOfJob(j, days) ==
    LET durSec == SubSeconds(j.CompletedAt, j.StartedAt)
        sc == monthlyScale(days)
    IN IF ~IsMac(j.Labels) THEN <<>>
       ELSE IF durSec <= 5 * 60 THEN <<>>
       ELSE <<[RuleID |-> "expensive-os",
               Severity |-> "high",
               \* durMin * (0.08 - 0.008) * scale, in milli-dollars
               EstimatedMonthlySavings |-> Rat(durSec * (80 - 8) * sc.num, 60 * sc.den),
               Fix |-> <<"Job '", j.Name, "' runs on macOS for ", Rat(durSec, 60),
                         " min ($", Rat(durSec * 80, 60),
                         "/run). macOS runners cost 10x Linux. Move non-GUI tests to ubuntu-latest to save ~90%.">>]>>

DetectExpensiveOS(c) ==
    ConcatAll([j \in DOMAIN c.Jobs |-> ExpensiveOSOfJob(c.Jobs[j], c.Days)])

\* A plausible slip: two of the appends are exchanged.
GenerateRecommendationsSwapped(c) ==
    {DetectCacheMiss(c) \o d \o DetectLongCheckout(c) \o DetectExpensiveOS(c) :
        d \in DetectDuplicateSteps(c)}

\* The set of lists GenerateRecommendations can return.
GenerateRecommendations(c) ==
    {DetectCacheMiss(c) \o DetectLongCheckout(c) \o d \o DetectExpensiveOS(c) :
        d \in DetectDuplicateSteps(c)}

(***************************************************************************)
(* The narrative engine: Analyze.  Minutes are exact rationals of the      *)
(* seconds between two instants; costs are milli-dollars.  The texts that  *)
(* fmt.Sprintf builds are kept as the tuple of their fragments and values. *)
(***************************************************************************)
kwCache == <<"c","a","c","h","e">>
kwNpm == <<"n","p","m">>
kwPip == <<"p","i","p">>

TopStepsLimit == 10

\* t.Sub(u).Minutes() on instants held in whole seconds.
SubMinutes(t, u) == Rat(t - u, 60)

\* m[k] += v on a Go map of float64 amounts.
MapAddRat(m, k, v) ==
    [x \in DOMAIN m \cup {k} |->
        IF x = k THEN (IF k \in DOMAIN m THEN RatAdd(m[k], v) ELSE v) ELSE m[x]]

\* The body of the loop over j.Steps.
AnalyzeStep(acc, jobRate, s) ==
    LET sd == SubMinutes(s.CompletedAt, s.StartedAt)
        sn == ToLower(s.Name)
        hasInstall == \/ Contains(sn, kwInstall)
                      \/ Contains(sn, kwNpm)
                      \/ Contains(sn, kwPip)
        cacheMiss ==
            IF Contains(sn, kwCache) /\ s.Conclusion = "failure"
            THEN <<[Type |-> "cache-miss", Detail |-> <<s.Name>>,
                    Cost |-> RatMul(sd, jobRate)]>>
            ELSE <<>>
        slowDeps ==
            IF RatLess(Rat(3, 1), sd) /\ hasInstall
            THEN <<[Type |-> "slow-deps", Detail |-> <<s.Name, " (", sd, "m)">>,
                    \* sd * rate * 0.5
                    Cost |-> RatDiv(RatMul(sd, jobRate), 2)]>>
            ELSE <<>>
    IN IF sd.num <= 0 THEN acc
       ELSE [acc EXCEPT !.stepAgg = MapAddRat(@, s.Name, sd),
                        !.Waste = @ \o cacheMiss \o slowDeps]

RECURSIVE AnalyzeSteps(_, _, _, _)
AnalyzeSteps(acc, jobRate, steps, k) ==
    IF k > Len(steps) THEN acc
    ELSE AnalyzeSteps(AnalyzeStep(acc, jobRate, steps[k]), jobRate, steps, k + 1)

\* A plausible slip: a failed job is recorded before its duration is looked at.
AnalyzeJobRetryFirst(acc, j) ==
    LET jobRate == RunnerRate(j.Labels)
        dur == SubMinutes(j.CompletedAt, j.StartedAt)
        cost == RatMul(dur, jobRate)
        retry == IF j.Conclusion = "failure"
                 THEN <<[Type |-> "retry", Detail |-> <<"Failed: ", j.Name>>,
                         Cost |-> cost]>>
                 ELSE <<>>
    IN IF dur.num <= 0 THEN [acc EXCEPT !.Waste = @ \o retry]
       ELSE AnalyzeSteps([acc EXCEPT !.TotalMinutes = RatAdd(@, dur),
                                     !.TotalCost = RatAdd(@, cost),
                                     !.ByWorkflow = MapAddRat(@, j.Workflow, cost),
                                     !.hasMac = @ \/ jobRate = 80,
                                     !.Waste = @ \o retry],
                         jobRate, j.Steps, 1)

\* The body of the loop over jobs.
AnalyzeJob(acc, j) ==
    LET jobRate == RunnerRate(j.Labels)
        dur == SubMinutes(j.CompletedAt, j.StartedAt)
        cost == RatMul(dur, jobRate)
        retry == IF j.Conclusion = "failure"
                 THEN <<[Type |-> "retry", Detail |-> <<"Failed: ", j.Name>>,
                         Cost |-> cost]>>
                 ELSE <<>>
    IN IF dur.num <= 0 THEN acc
       ELSE AnalyzeSteps([acc EXCEPT !.TotalMinutes = RatAdd(@, dur),
                                     !.TotalCost = RatAdd(@, cost),
                                     !.ByWorkflow = MapAddRat(@, j.Workflow, cost),
                                     !.hasMac = @ \/ jobRate = 80,
                                     !.Waste = @ \o retry],
                         jobRate, j.Steps, 1)

RECURSIVE AnalyzeJobs(_, _, _)
AnalyzeJobs(acc, js, i) ==
    IF i > Len(js) THEN acc
    ELSE AnalyzeJobs(AnalyzeJob(acc, js[i]), js, i + 1)

\* The lists that appending the entries of stepAgg in map order and then
\* sort.Slice by decreasing Min can leave: every arrangement of the entries in
\* which no entry precedes one with more minutes.
RECURSIVE TopStepsArrangements(_)
TopStepsArrangements(entries) ==
    IF entries = {} THEN {<<>>}
    ELSE LET top == {e \in entries : \A f \in entries : ~RatLess(e.Min, f.Min)}
         IN UNION {{<<e>> \o t : t \in TopStepsArrangements(entries \ {e})} : e \in top}

\* A plausible slip: the list of step totals is not cut.
TruncateTopStepsNone(sorted) == sorted

\* r.TopSteps[:10] when there are more than 10 entries.
TruncateTopSteps(sorted) ==
    IF Len(sorted) > TopStepsLimit THEN SubSeq(sorted, 1, TopStepsLimit) ELSE sorted

RECURSIVE WasteSum(_)
WasteSum(waste) ==
    IF waste = <<>> THEN Rat(0, 1)
    ELSE RatAdd(Head(waste).Cost, WasteSum(Tail(waste)))

\* A plausible slip: the macOS hint is appended ahead of the waste summary.
SuggestionsMacFirst(waste, hasMac, topSteps) ==
    LET wasteSum == WasteSum(waste)
    IN (IF hasMac
        THEN <<<<"macOS runners cost 10x Linux - switch where possible">>>>
        ELSE <<>>)
       \o (IF wasteSum.num > 0
           THEN <<<<"Fix ", Len(waste), " issues to save ~$", wasteSum, "/week">>>>
           ELSE <<>>)
       \o ConcatAll([i \in DOMAIN topSteps |->
                       IF RatLess(Rat(30, 1), topSteps[i].Min)
                       THEN <<<<"'", topSteps[i].Name, "' used ", topSteps[i].Min,
                                "m - cache or parallelize">>>>
                       ELSE <<>>])

\* The three blocks of suggestions, in the order of the appends.
SuggestionsOf(waste, hasMac, topSteps) ==
    LET wasteSum == WasteSum(waste)
    IN (IF wasteSum.num > 0
        THEN <<<<"Fix ", Len(waste), " issues to save ~$", wasteSum, "/week">>>>
        ELSE <<>>)
       \o (IF hasMac
           THEN <<<<"macOS runners cost 10x Linux - switch where possible">>>>
           ELSE <<>>)
       \o ConcatAll([i \in DOMAIN topSteps |->
                       IF RatLess(Rat(30, 1), topSteps[i].Min)
                       THEN <<<<"'", topSteps[i].Name, "' used ", topSteps[i].Min,
                                "m - cache or parallelize">>>>
                       ELSE <<>>])

\* r.MonthlyCost is assigned only when days > 0 and is 0 otherwise.
MonthlyCostOf(totalCost, days) ==
    IF days > 0 THEN RatMul(RatDiv(totalCost, days), 30) ELSE Rat(0, 1)

EmptyRatMap == [x \in {} |-> Rat(0, 1)]

\* The set of reports Analyze can return (one per arrangement of TopSteps).
Analyze(js, days) ==
    LET acc == AnalyzeJobs([TotalMinutes |-> Rat(0, 1), TotalCost |-> Rat(0, 1),
                            ByWorkflow |-> EmptyRatMap, Waste |-> <<>>,
                            stepAgg |-> EmptyRatMap, hasMac |-> FALSE], js, 1)
        entries == {[Name |-> n, Min |-> acc.stepAgg[n]] : n \in DOMAIN acc.stepAgg}
    IN {[TotalMinutes |-> acc.TotalMinutes,
         TotalCost |-> acc.TotalCost,
         MonthlyCost |-> MonthlyCostOf(acc.TotalCost, days),
         ByWorkflow |-> acc.ByWorkflow,
         TopSteps |-> TruncateTopSteps(sorted),
         Waste |-> acc.Waste,
         Suggestions |-> SuggestionsOf(acc.Waste, acc.hasMac, TruncateTopSteps(sorted))] :
           sorted \in TopStepsArrangements(entries)}

(***************************************************************************)
(* Inputs of CalculateCost, RunnerRate and the detectors.                  *)
(***************************************************************************)
lblLinux == <<"l","i","n","u","x">>
lblSelfHosted == <<"s","e","l","f","-","h","o","s","t","e","d">>
lblMacos13 == <<"m","a","c","o","s","-","1","3">>
lblMacOSCaps == <<"m","a","c","O","S">>
lblWindows == <<"W","i","n","d","o","w","s","-","2","2">>

LabelSet == {lblLinux, lblSelfHosted, lblMacos13, lblMacOSCaps, lblWindows}

OSSet == {lblLinux, kwMacos, lblMacOSCaps, kwWindows, <<>>}

DaysSet == {-2, 0, 1, 3}

WfNames == {"CI", "Deploy"}

JobNames == {"build", "test"}

\* Aggregation inputs: every list of workflows that MaxBuild appends build (of a
\* workflow to the list, or of a job to the last workflow).  Workflow and job
\* names repeat inside and across workflows, durations are zero or positive,
\* "build" jobs have no label (the default OS decides) and "test" jobs a macOS
\* label; every job carries one step of positive and one of zero duration.
AggJobs ==
    {[Name |-> n, Duration |-> d,
      Labels |-> IF n = "build" THEN <<>> ELSE <<lblMacos13>>,
      Steps |-> <<[Name |-> "compile", Duration |-> 1],
                  [Name |-> "noop", Duration |-> 0]>>] : n \in JobNames, d \in {0, 3}}

AggExtend(S) ==
    S \cup {Append(a, [Name |-> w, Jobs |-> <<>>]) : a \in S, w \in WfNames}
      \cup {[a EXCEPT ![Len(a)].Jobs = Append(@, j)] :
               a \in {x \in S : Len(x) > 0}, j \in AggJobs}

RECURSIVE AggBuild(_)
AggBuild(k) == IF k = 0 THEN {<<>>} ELSE AggExtend(AggBuild(k - 1))

AggInputs ==
    [as : AggBuild(MaxBuild),
     os : {lblLinux, kwMacos},
     days : {3}]

\* Single-job inputs: every label list, default OS, sign of the durations and
\* observation window.
SingleJobs ==
    [Name : {"build"}, Duration : {-1, 0, 2}, Labels : SeqUpTo(MaxLabels, LabelSet),
     Steps : SeqUpTo(1, [Name : {"compile"}, Duration : {-1, 0, 1}])]

SingleInputs ==
    [as : {<<[Name |-> "CI", Jobs |-> <<j>>]>> : j \in SingleJobs},
     os : OSSet,
     days : DaysSet]

\* Ranking inputs: one job of up to MaxRankSteps steps named by their position,
\* with durations that repeat, so that ties occur on both sides of the cut.
StepNames == <<"step1", "step2", "step3", "step4", "step5", "step6", "step7", "step8">>

RankSteps ==
    UNION {{[i \in 1..k |-> [Name |-> StepNames[i], Duration |-> d[i]]] :
              d \in [1..k -> {1, 2}]} : k \in 0..MaxRankSteps}

RankInputs ==
    [as : {<<[Name |-> "BigWorkflow",
              Jobs |-> <<[Name |-> "big-job", Duration |-> 28,
                          Labels |-> <<lblLinux>>, Steps |-> st]>>]>> : st \in RankSteps},
     os : {lblLinux},
     days : {1}]

CostInputs == AggInputs \cup SingleInputs \cup RankInputs

NoReport == [PerStep |-> <<>>, PerJob |-> EmptyMap, PerWorkflow |-> EmptyMap,
             TotalCost |-> 0, ProjectedCost30 |-> Rat(0, 1), TopSteps |-> <<>>]

NoCostCall ==
    /\ analyses = <<>>
    /\ defaultOS = <<>>
    /\ observationDays = 0
    /\ report = NoReport

NoRateCall ==
    /\ labels = <<>>
    /\ rate = 0

NoRecCall ==
    /\ cr = [Jobs |-> <<>>, Days |-> 0]
    /\ recs = <<>>
    /\ scale = Rat(0, 1)

NoReportYet ==
    [TotalMinutes |-> Rat(0, 1), TotalCost |-> Rat(0, 1), MonthlyCost |-> Rat(0, 1),
     ByWorkflow |-> EmptyRatMap, TopSteps |-> <<>>, Waste |-> <<>>,
     Suggestions |-> <<>>]

NoAnalyzeCall ==
    /\ allJobs = <<>>
    /\ lookback = 0
    /\ narrative = NoReportYet

(***************************************************************************)
(* Specification of a call of CalculateCost.                               *)
(***************************************************************************)
InitCost ==
    /\ pc = "call"
    /\ called = "none"
    /\ \E in \in CostInputs :
          /\ analyses = in.as
          /\ defaultOS = in.os
          /\ observationDays = in.days
    /\ report = NoReport
    /\ NoRateCall
    /\ NoRecCall
    /\ NoAnalyzeCall

CallCalculateCost ==
    /\ pc = "call"
    /\ report' \in CalculateCost(analyses, defaultOS, observationDays)
    /\ pc' = "done"
    /\ called' = "CalculateCost"
    /\ UNCHANGED <<analyses, defaultOS, observationDays, rateVars, recVars, anVars>>

NextCost == CallCalculateCost

SpecCost == InitCost /\ [][NextCost]_vars

(***************************************************************************)
(* Specification of a call of RunnerRate.                                  *)
(***************************************************************************)
InitRate ==
    /\ pc = "call"
    /\ called = "none"
    /\ labels \in SeqUpTo(MaxLabels + 1, LabelSet)
    /\ rate = 0
    /\ NoCostCall
    /\ NoRecCall
    /\ NoAnalyzeCall

CallRunnerRate ==
    /\ pc = "call"
    /\ rate' = RunnerRate(labels)
    /\ pc' = "done"
    /\ called' = "RunnerRate"
    /\ UNCHANGED <<labels, costVars, recVars, anVars>>

NextRate == CallRunnerRate

SpecRate == InitRate /\ [][NextRate]_vars

(***************************************************************************)
(* Inputs of the detectors: a CostReport [Jobs, Days] of Job records.      *)
(***************************************************************************)
snNpmInstall == <<"n","p","m"," ","i","n","s","t","a","l","l">>
snNpmCi == <<"n","p","m"," ","c","i">>
snPipInstallCaps == <<"P","i","p"," ","I","n","s","t","a","l","l">>
snGoModDownload == <<"g","o"," ","m","o","d"," ","d","o","w","n","l","o","a","d">>
snCheckout == <<"c","h","e","c","k","o","u","t">>

snCheckoutInstall == <<"C","h","e","c","k","o","u","t"," ","+"," ","I","n","s","t","a","l","l">>

RecStepNames == {snNpmCi, snGoModDownload, snCheckout, snCheckoutInstall}

RecDaysSet == {-2, 0, 1, 7, 30}

\* Steps that last 30, 60, 61 or 91 seconds.
RecSteps ==
    [Name : RecStepNames, Conclusion : {"success"},
     StartedAt : {0, 30}, CompletedAt : {60, 91}]

\* One macOS job of up to MaxRecSteps steps.
OneJobReports ==
    [Jobs : {<<j>> : j \in [Name : {"build"}, Workflow : {"CI"}, Conclusion : {"success"},
                            Labels : {<<lblMacos13>>},
                            StartedAt : {0}, CompletedAt : {600},
                            Steps : SeqUpTo(MaxRecSteps, RecSteps)]},
     Days : {-2, 7}]

\* The step lists of the jobs of MultiJobReports: 91 seconds per step.
RecStepAs(name) ==
    [Name |-> name, Conclusion |-> "success", StartedAt |-> 0, CompletedAt |-> 91]

MultiStepLists ==
    {<<>>, <<RecStepAs(snCheckoutInstall)>>,
     <<RecStepAs(snCheckoutInstall), RecStepAs(snNpmInstall)>>}

\* The runner of a job of MultiJobReports goes with its name.
LabelsOfJobName(n) ==
    IF n = "build" THEN <<lblLinux>>
    ELSE IF n = "test" THEN <<lblMacos13>>
    ELSE <<lblWindows, lblMacos13>>

\* The job at position i of a collection: the first one belongs to "CI".
MultiJob(v, i) ==
    [Name |-> v.Name, Workflow |-> IF i = 1 THEN "CI" ELSE "Release",
     Conclusion |-> "success", Labels |-> LabelsOfJobName(v.Name),
     StartedAt |-> 0, CompletedAt |-> 600, Steps |-> v.Steps]

\* Up to MaxRecJobs jobs of 10 minutes, named build, test or lint, observed
\* over a window of 0 days.
MultiJobReports ==
    [Jobs : UNION {{[i \in 1..n |-> MultiJob(v[i], i)] :
                      v \in [1..n -> [Name : {"build", "test", "lint"},
                                      Steps : MultiStepLists]]} : n \in 0..MaxRecJobs},
     Days : {0}]

\* One job without steps that lasts 0, 5, 5 1/60 or 10 minutes.
OSReports ==
    [Jobs : {<<j>> : j \in [Name : {"ios"}, Workflow : {"CI"}, Conclusion : {"success"},
                            Labels : {<<lblLinux>>, <<lblMacos13>>, <<lblMacOSCaps>>,
                                      <<lblLinux, lblMacos13>>,
                                      <<lblWindows, lblMacos13>>},
                            StartedAt : {0}, CompletedAt : {0, 300, 301, 600},
                            Steps : {<<>>}]},
     Days : RecDaysSet]

\* The jobs "build" (linux) and "test" (macOS), each of -1, 0 or 10 minutes,
\* with steps of 91 seconds: a job can carry steps and have no duration.
SkippedJobReports ==
    [Jobs : {<<[MultiJob([Name |-> "build", Steps |-> s1], 1) EXCEPT !.CompletedAt = e1],
               [MultiJob([Name |-> "test", Steps |-> s2], 2) EXCEPT !.CompletedAt = e2]>> :
                e1 \in {-60, 0, 600}, e2 \in {-60, 0, 600},
                s1 \in MultiStepLists, s2 \in MultiStepLists},
     Days : {0, 7}]

RecInputs == OneJobReports \cup MultiJobReports \cup OSReports \cup SkippedJobReports

(***************************************************************************)
(* Specification of a call of a detector or of monthlyScale.               *)
(***************************************************************************)
InitRec ==
    /\ pc = "call"
    /\ called = "none"
    /\ cr \in RecInputs
    /\ recs = <<>>
    /\ scale = Rat(0, 1)
    /\ NoCostCall
    /\ NoRateCall
    /\ NoAnalyzeCall

CallDetectCacheMiss ==
    /\ pc = "call"
    /\ recs' = DetectCacheMiss(cr)
    /\ pc' = "done"
    /\ called' = "DetectCacheMiss"
    /\ UNCHANGED <<cr, scale, costVars, rateVars, anVars>>

CallDetectLongCheckout ==
    /\ pc = "call"
    /\ recs' = DetectLongCheckout(cr)
    /\ pc' = "done"
    /\ called' = "DetectLongCheckout"
    /\ UNCHANGED <<cr, scale, costVars, rateVars, anVars>>

CallDetectDuplicateSteps ==
    /\ pc = "call"
    /\ recs' \in DetectDuplicateSteps(cr)
    /\ pc' = "done"
    /\ called' = "DetectDuplicateSteps"
    /\ UNCHANGED <<cr, scale, costVars, rateVars, anVars>>

CallDetectExpensiveOS ==
    /\ pc = "call"
    /\ recs' = DetectExpensiveOS(cr)
    /\ pc' = "done"
    /\ called' = "DetectExpensiveOS"
    /\ UNCHANGED <<cr, scale, costVars, rateVars, anVars>>

CallGenerateRecommendations ==
    /\ pc = "call"
    /\ recs' \in GenerateRecommendations(cr)
    /\ pc' = "done"
    /\ called' = "GenerateRecommendations"
    /\ UNCHANGED <<cr, scale, costVars, rateVars, anVars>>

CallMonthlyScale ==
    /\ pc = "call"
    /\ scale' = monthlyScale(cr.Days)
    /\ pc' = "done"
    /\ called' = "monthlyScale"
    /\ UNCHANGED <<cr, recs, costVars, rateVars, anVars>>

NextRec ==
    \/ CallDetectCacheMiss
    \/ CallDetectLongCheckout
    \/ CallDetectDuplicateSteps
    \/ CallDetectExpensiveOS
    \/ CallGenerateRecommendations
    \/ CallMonthlyScale

SpecRec == InitRec /\ [][NextRec]_vars

(***************************************************************************)
(* Specification of a call of Analyze.                                     *)
(***************************************************************************)
snRestoreCache == <<"R","e","s","t","o","r","e"," ","C","a","c","h","e">>

\* The name of the step at position k of the one job of WasteInputs.
WasteStepName(k) ==
    IF k = 1 THEN snRestoreCache ELSE IF k = 2 THEN snNpmCi ELSE snPipInstallCaps

\* One job of up to MaxRecSteps steps that last 0, 3, 4 or 31 minutes and
\* succeed or fail; the job lasts -1, 0 or 10 minutes and succeeds or fails.
WasteJobs ==
    UNION {{[Name |-> "build", Workflow |-> "CI", Conclusion |-> c, Labels |-> ls,
             StartedAt |-> 0, CompletedAt |-> e,
             Steps |-> [k \in 1..n |-> [Name |-> WasteStepName(k),
                                        Conclusion |-> v[k].Conclusion,
                                        StartedAt |-> 0,
                                        CompletedAt |-> v[k].CompletedAt]]] :
              c \in {"success", "failure"},
              ls \in {<<lblLinux>>, <<lblMacos13>>, <<lblWindows, lblMacos13>>},
              e \in {-60, 0, 600},
              v \in [1..n -> [Conclusion : {"success", "failure"},
                              CompletedAt : {0, 180, 240, 1860}]]} : n \in 0..MaxRecSteps}

WasteInputs == [Jobs : {<<j>> : j \in WasteJobs}, Days : {-2, 0, 7}]

\* The job at position i of SeveralJobs: the first one runs on linux for
\* workflow "CI", the others on macOS for workflow "Release".
SeveralJob(v, i) ==
    [Name |-> IF i = 1 THEN "build" ELSE "test",
     Workflow |-> IF i = 1 THEN "CI" ELSE "Release",
     Conclusion |-> v.Conclusion,
     Labels |-> IF i = 1 THEN <<lblLinux>> ELSE <<lblMacos13>>,
     StartedAt |-> 0, CompletedAt |-> v.CompletedAt, Steps |-> v.Steps]

\* Up to MaxRecJobs jobs of 0 or 10 minutes, without steps or with one
\* successful "npm ci" of 4 minutes.
SeveralJobs ==
    UNION {{[i \in 1..n |-> SeveralJob(v[i], i)] :
              v \in [1..n -> [Conclusion : {"success", "failure"},
                              CompletedAt : {0, 600},
                              Steps : {<<>>, <<[Name |-> snNpmCi, Conclusion |-> "success",
                                                StartedAt |-> 0, CompletedAt |-> 240]>>}]]} :
           n \in 0..MaxRecJobs}

SeveralInputs == [Jobs : SeveralJobs, Days : {0, 7}]

\* The name of the step at position k of the one job of TopInputs.
TopStepName(k) == <<"s","t","e","p","-", LowerChars[k]>>

\* One job of up to MaxTopNames steps with distinct names; the step at
\* position k lasts 3k or 3k + 3 minutes, so that neighbours can tie.
TopJobs ==
    UNION {{[Name |-> "build", Workflow |-> "CI", Conclusion |-> "success",
             Labels |-> <<lblLinux>>, StartedAt |-> 0, CompletedAt |-> 600,
             Steps |-> [k \in 1..n |-> [Name |-> TopStepName(k), Conclusion |-> "success",
                                        StartedAt |-> 0,
                                        CompletedAt |-> 180 * (k + v[k])]]] :
              v \in [1..n -> {0, 1}]} : n \in 1..MaxTopNames}

TopInputs == [Jobs : {<<j>> : j \in TopJobs}, Days : {7}]

AnalyzeInputs == WasteInputs \cup SeveralInputs \cup TopInputs

InitAnalyze ==
    /\ pc = "call"
    /\ called = "none"
    /\ \E in \in AnalyzeInputs : allJobs = in.Jobs /\ lookback = in.Days
    /\ narrative = NoReportYet
    /\ NoCostCall
    /\ NoRateCall
    /\ NoRecCall

CallAnalyze ==
    /\ pc = "call"
    /\ narrative' \in Analyze(allJobs, lookback)
    /\ pc' = "done"
    /\ called' = "Analyze"
    /\ UNCHANGED <<allJobs, lookback, costVars, rateVars, recVars>>

NextAnalyze == CallAnalyze

SpecAnalyze == InitAnalyze /\ [][NextAnalyze]_vars

(***************************************************************************)
(* Specification of a run of either engine on one collection of jobs.      *)
(***************************************************************************)
InitEngine ==
    /\ pc = "call"
    /\ called = "none"
    /\ cr \in MultiJobReports
    /\ recs = <<>>
    /\ scale = Rat(0, 1)
    /\ allJobs = cr.Jobs
    /\ lookback = cr.Days
    /\ narrative = NoReportYet
    /\ NoCostCall
    /\ NoRateCall

NextEngine == CallGenerateRecommendations \/ CallAnalyze

SpecEngine == InitEngine /\ [][NextEngine]_vars

(***************************************************************************)
(* What the claims say about a finished call of CalculateCost, stated on   *)
(* the input and the returned report.                                      *)
(***************************************************************************)
CostDone == pc = "done" /\ called = "CalculateCost"

\* Positions <<w, j>> of the jobs of the input, and <<w, j, k>> of the steps.
JobPositions ==
    UNION {{<<w, j>> : j \in DOMAIN analyses[w].Jobs} : w \in DOMAIN analyses}

JobAt(p) == analyses[p[1]].Jobs[p[2]]

PositiveJobs == {p \in JobPositions : JobAt(p).Duration > 0}

InputJobNames == {JobAt(p).Name : p \in JobPositions}

InputWfNames == {analyses[w].Name : w \in DOMAIN analyses}

\* The cost of the job at p, billed at the rate the code resolves for it.
JobCostAt(p) == JobAt(p).Duration * resolveRate(JobAt(p).Labels, defaultOS)

SumOfJobs(P) == SumMap([p \in P |-> JobCostAt(p)])

\* The entries of the steps of positive duration of one job, in step order;
\* none when the job itself has no positive duration.
EntriesOfJob(w, j) ==
    LET job == analyses[w].Jobs[j]
        r == resolveRate(job.Labels, defaultOS)
        all == [k \in DOMAIN job.Steps |->
                   [Workflow |-> analyses[w].Name, Job |-> job.Name,
                    Step |-> job.Steps[k].Name,
                    Cost |-> job.Steps[k].Duration * r,
                    Minutes |-> job.Steps[k].Duration]]
    IN IF job.Duration > 0 THEN SelectSeq(all, LAMBDA e : e.Minutes > 0) ELSE <<>>

IncludedEntries ==
    ConcatAll([w \in DOMAIN analyses |->
                 ConcatAll([j \in DOMAIN analyses[w].Jobs |-> EntriesOfJob(w, j)])])

Count(s, e) == Cardinality({i \in DOMAIN s : s[i] = e})

Range(s) == {s[i] : i \in DOMAIN s}

\* C1: the total cost equals the sum of the per-workflow costs and the sum of
\* the per-job costs, also when job or workflow names repeat.
C1_TotalsAgree ==
    CostDone =>
        /\ report.TotalCost = SumMap(report.PerWorkflow)
        /\ report.TotalCost = SumMap(report.PerJob)

\* C1 witness: a workflow name used twice, a job name used twice inside one
\* workflow and once more in the other, all three jobs billed.
C1_Witness ==
    /\ CostDone
    /\ Len(analyses) = 2
    /\ analyses[1].Name = analyses[2].Name
    /\ Len(analyses[1].Jobs) = 2 /\ Len(analyses[2].Jobs) = 1
    /\ \A p \in JobPositions : JobAt(p).Name = "build" /\ JobAt(p).Duration > 0
    /\ report.TotalCost > 0

\* C2: a job of duration <= 0 adds nothing to TotalCost, PerJob, PerWorkflow or
\* ProjectedCost30 and none of its steps is listed; a step of duration <= 0 of
\* an included job gets no entry, not even one of cost zero.
C2_NonPositiveExcluded ==
    CostDone =>
        /\ report.TotalCost = SumOfJobs(PositiveJobs)
        /\ \A n \in DOMAIN report.PerJob :
              report.PerJob[n] = SumOfJobs({p \in PositiveJobs : JobAt(p).Name = n})
        /\ \A n \in DOMAIN report.PerWorkflow :
              report.PerWorkflow[n] =
                  SumOfJobs({p \in PositiveJobs : analyses[p[1]].Name = n})
        /\ report.ProjectedCost30 =
              Rat(SumOfJobs(PositiveJobs) * 30, Max(observationDays, 1))
        /\ report.PerStep = IncludedEntries
        /\ Range(report.TopSteps) \subseteq Range(IncludedEntries)
        /\ \A e \in Range(report.PerStep) \cup Range(report.TopSteps) :
              e.Cost > 0 /\ e.Minutes > 0

\* C2 witness: a job of duration 0 that has a positive step, beside a billed job
\* that has a step of duration 0; the one entry listed is the billed job's
\* positive step.
C2_Witness ==
    /\ CostDone
    /\ \E p \in JobPositions :
          /\ JobAt(p).Duration <= 0
          /\ \E k \in DOMAIN JobAt(p).Steps : JobAt(p).Steps[k].Duration > 0
    /\ \E p \in PositiveJobs :
          \E k \in DOMAIN JobAt(p).Steps : JobAt(p).Steps[k].Duration <= 0
    /\ Len(report.PerStep) = 1
    /\ report.TotalCost > 0

\* C3 as stated: PerJob has a key for every job name of the input and
\* PerWorkflow a key for every workflow name, with value 0 when all jobs under
\* the name had a non-positive duration.
C3_Original ==
    CostDone =>
        /\ InputJobNames \subseteq DOMAIN report.PerJob
        /\ InputWfNames \subseteq DOMAIN report.PerWorkflow

\* C3 amended: PerWorkflow has a key for exactly the workflow names of the input
\* (value 0 when no job under the name has a positive duration); PerJob has a
\* key for exactly the names of the jobs of positive duration, so a name whose
\* jobs all have a duration <= 0 has no key (and reads as 0).
C3_KeysOfMaps ==
    CostDone =>
        /\ DOMAIN report.PerWorkflow = InputWfNames
        /\ \A n \in InputWfNames :
              (\A p \in JobPositions : analyses[p[1]].Name = n => JobAt(p).Duration <= 0)
                  => report.PerWorkflow[n] = 0
        /\ DOMAIN report.PerJob = {JobAt(p).Name : p \in PositiveJobs}

\* C3 witness: a workflow whose jobs all have duration <= 0 next to a billed one.
C3_Witness ==
    /\ CostDone
    /\ Len(analyses) = 2
    /\ analyses[1].Name # analyses[2].Name
    /\ Len(analyses[1].Jobs) = 1 /\ analyses[1].Jobs[1].Duration <= 0
    /\ Len(analyses[2].Jobs) = 1 /\ analyses[2].Jobs[1].Duration > 0
    /\ analyses[1].Jobs[1].Name # analyses[2].Jobs[1].Name
    /\ report.PerWorkflow[analyses[1].Name] = 0
    /\ analyses[1].Jobs[1].Name \notin DOMAIN report.PerJob

\* The least cost among the entries of a non-empty list.
MinCost(s) == CHOOSE c \in {s[i].Cost : i \in DOMAIN s} :
                 \A i \in DOMAIN s : c <= s[i].Cost

\* C4: TopSteps has min(5, len(PerStep)) entries, each an entry of PerStep
\* (with multiplicity), in non-increasing order of cost; no entry left out costs
\* more than the cheapest one kept; PerStep still lists every included step in
\* the order of the input.
C4_TopSteps ==
    CostDone =>
        /\ Len(report.TopSteps) = Min(5, Len(report.PerStep))
        /\ \A e \in Range(report.TopSteps) :
              Count(report.TopSteps, e) <= Count(report.PerStep, e)
        /\ \A i, j \in DOMAIN report.TopSteps :
              i < j => report.TopSteps[i].Cost >= report.TopSteps[j].Cost
        /\ \A e \in Range(report.PerStep) :
              Count(report.PerStep, e) > Count(report.TopSteps, e)
                  => e.Cost <= MinCost(report.TopSteps)
        /\ report.PerStep = IncludedEntries

\* C4 witness: more than five entries, in an order that is not the sorted one,
\* and an entry left out.
C4_Witness ==
    /\ CostDone
    /\ Len(report.PerStep) > 5
    /\ Len(report.TopSteps) = 5
    /\ report.PerStep[1].Cost < report.PerStep[Len(report.PerStep)].Cost
    /\ \E e \in Range(report.PerStep) : e \notin Range(report.TopSteps)

\* The stable arrangement: among the most expensive entries left, the one
\* produced first comes next.
RECURSIVE StableArrangement(_, _)
StableArrangement(s, idx) ==
    IF idx = {} THEN <<>>
    ELSE LET top == {i \in idx : \A j \in idx : s[j].Cost <= s[i].Cost}
             first == CHOOSE i \in top : \A j \in top : i <= j
         IN <<s[first]>> \o StableArrangement(s, idx \ {first})

\* C5: entries of equal cost keep their order of production in TopSteps, and
\* of a tie across the cut the entries produced first are kept: TopSteps is
\* the head of the stable arrangement of PerStep.
C5_StableTies ==
    CostDone =>
        report.TopSteps =
            SubSeq(StableArrangement(report.PerStep, DOMAIN report.PerStep),
                   1, Min(5, Len(report.PerStep)))

\* C6: ProjectedCost30 = (TotalCost / max(observationDays, 1)) * 30; a window of
\* days <= 0 projects as a window of one day, and a total of 0 projects to 0.
C6_Projection ==
    CostDone =>
        /\ report.ProjectedCost30 =
              Rat(report.TotalCost * 30, Max(observationDays, 1))
        /\ observationDays <= 0 =>
              report.ProjectedCost30 = Rat(report.TotalCost * 30, 1)
        /\ report.TotalCost = 0 => report.ProjectedCost30 = Rat(0, 1)

\* C6 witness: a billed job observed over a window of less than zero days.
C6_Witness ==
    /\ CostDone
    /\ observationDays < 0
    /\ report.TotalCost > 0
    /\ report.ProjectedCost30 = Rat(report.TotalCost * 30, 1)

\* The tier a text names: high for "macos", mid for "windows", else low.
TierOfText(t) ==
    IF Contains(ToLower(t), kwMacos) THEN RateMacOS
    ELSE IF Contains(ToLower(t), kwWindows) THEN RateWindows
    ELSE RateLinux

NamesPlatform(t) ==
    Contains(ToLower(t), kwMacos) \/ Contains(ToLower(t), kwWindows)

\* The tier of a label list: that of the first label naming a platform.
TierOfLabels(ls) ==
    IF \E i \in DOMAIN ls : NamesPlatform(ls[i])
    THEN TierOfText(ls[CHOOSE i \in DOMAIN ls :
                          /\ NamesPlatform(ls[i])
                          /\ \A j \in 1..(i - 1) : ~NamesPlatform(ls[j])])
    ELSE RateLinux

\* C8: the default OS decides the rate of a job only when the job has no
\* label; a job with at least one label is billed by its labels alone.
C8_DefaultOSOnlyWithoutLabels ==
    CostDone =>
        /\ \A n \in DOMAIN report.PerJob :
              report.PerJob[n] =
                  SumMap([p \in {q \in PositiveJobs : JobAt(q).Name = n} |->
                            JobAt(p).Duration *
                               (IF Len(JobAt(p).Labels) = 0
                                THEN TierOfText(defaultOS)
                                ELSE TierOfLabels(JobAt(p).Labels))])
        /\ \A e \in Range(report.PerStep) :
              \E p \in PositiveJobs :
                  /\ e.Job = JobAt(p).Name
                  /\ e.Cost = e.Minutes *
                         (IF Len(JobAt(p).Labels) = 0
                          THEN TierOfText(defaultOS)
                          ELSE TierOfLabels(JobAt(p).Labels))

\* C8 witness: a labelled job without a platform keyword, default OS "macos",
\* billed at the low tier.
C8_Witness ==
    /\ CostDone
    /\ Len(analyses) = 1 /\ Len(analyses[1].Jobs) = 1
    /\ analyses[1].Jobs[1].Labels = <<lblSelfHosted>>
    /\ analyses[1].Jobs[1].Duration > 0
    /\ defaultOS = kwMacos
    /\ report.TotalCost = analyses[1].Jobs[1].Duration * RateLinux
    /\ Len(report.PerStep) = 1

(***************************************************************************)
(* What the claims say about a finished call of RunnerRate.                *)
(***************************************************************************)
RateDone == pc = "done" /\ called = "RunnerRate"

\* C7: RunnerRate returns the tier of the first label, in the given order,
\* whose lowercased text contains "macos" (high) or "windows" (mid), the low
\* tier when no label does (the empty list included); low < mid < high and
\* high = 10 x low.
C7_FirstPlatformLabelWins ==
    RateDone =>
        /\ rate = TierOfLabels(labels)
        /\ (\A i \in DOMAIN labels : ~NamesPlatform(labels[i])) => rate = RateLinux
        /\ labels = <<lblWindows, lblMacos13>> => rate = RateWindows
        /\ labels = <<lblMacos13, lblWindows>> => rate = RateMacOS
        /\ RateLinux < RateWindows /\ RateWindows < RateMacOS
        /\ RateMacOS = 10 * RateLinux

\* C7 witness: a windows label ahead of a macos label resolves to the mid tier.
C7_Witness ==
    /\ RateDone
    /\ labels = <<lblWindows, lblMacos13>>
    /\ rate = RateWindows

(***************************************************************************)
(* What the claims say about monthlyScale and DetectCacheMiss.             *)
(***************************************************************************)
\* The monthly-scale factor as specified: 30 / max(days, 1).
SpecifiedScale(days) == Rat(30, Max(days, 1))

\* C9: the monthly-scale factor of the detectors is 30 / observation days with
\* days <= 0 treated as 1, as in CalculateCost, so a window of days <= 0
\* scales as a window of one day.
C9_MonthlyScale ==
    (pc = "done" /\ called = "monthlyScale") =>
        /\ scale = SpecifiedScale(cr.Days)
        /\ cr.Days <= 0 => scale = Rat(30, 1)

\* What holds of monthlyScale: 30 / days for days >= 1, and 1 for days <= 0.
MonthlyScaleAsCoded ==
    (pc = "done" /\ called = "monthlyScale") =>
        scale = IF cr.Days >= 1 THEN Rat(30, cr.Days) ELSE Rat(1, 1)

\* Positions <<j, k>> of the steps of the detector input, in input order.
RecStepPositions ==
    ConcatAll([j \in DOMAIN cr.Jobs |->
                 [k \in DOMAIN cr.Jobs[j].Steps |-> <<j, k>>]])

RecStepAt(p) == cr.Jobs[p[1]].Steps[p[2]]

HasInstallKeyword(name) ==
    \/ Contains(ToLower(name), kwInstall)
    \/ Contains(ToLower(name), kwNpmCi)
    \/ Contains(ToLower(name), kwPipInstall)
    \/ Contains(ToLower(name), kwGoModDownload)

CacheMissPositions ==
    SelectSeq(RecStepPositions,
              LAMBDA p : /\ HasInstallKeyword(RecStepAt(p).Name)
                         /\ RecStepAt(p).CompletedAt - RecStepAt(p).StartedAt > 60)

\* The findings DetectCacheMiss returns are, in order, one per step occurrence
\* with an install keyword and more than 60 seconds, with rule id "cache-miss",
\* severity "high" and savings 70% x minutes x rate x the given factor.
CacheMissFindingsWith(factor) ==
    /\ Len(recs) = Len(CacheMissPositions)
    /\ \A i \in DOMAIN recs :
          LET p == CacheMissPositions[i]
              sec == RecStepAt(p).CompletedAt - RecStepAt(p).StartedAt
          IN /\ recs[i].RuleID = "cache-miss"
             /\ recs[i].Severity = "high"
             /\ recs[i].Fix[2] = RecStepAt(p).Name
             /\ recs[i].EstimatedMonthlySavings =
                   Rat(7 * sec * TierOfLabels(cr.Jobs[p[1]].Labels) * factor.num,
                       10 * 60 * factor.den)

\* C10: DetectCacheMiss emits exactly one finding ("cache-miss", "high") per
\* step occurrence whose lowercased name contains an install keyword and whose
\* duration exceeds 60 seconds, none for any other step, with savings 70% of the
\* step's minutes x the label-resolved rate x the monthly-scale factor
\* 30 / max(days, 1).
C10_CacheMiss ==
    (pc = "done" /\ called = "DetectCacheMiss") =>
        CacheMissFindingsWith(SpecifiedScale(cr.Days))

\* What holds of DetectCacheMiss: the same with the factor monthlyScale returns.
CacheMissAsCoded ==
    (pc = "done" /\ called = "DetectCacheMiss") =>
        CacheMissFindingsWith(monthlyScale(cr.Days))

\* For a window of at least one day C10 holds as stated.
CacheMissPositiveDays ==
    (pc = "done" /\ called = "DetectCacheMiss" /\ cr.Days >= 1) =>
        CacheMissFindingsWith(SpecifiedScale(cr.Days))

(***************************************************************************)
(* What the claims say about DetectDuplicateSteps.                         *)
(***************************************************************************)
RecDone(f) == pc = "done" /\ called = f

\* The step names of the detector input.
InputStepNames == {RecStepAt(p).Name : p \in Range(RecStepPositions)}

\* The names of the jobs in which a step named n occurs.
JobNamesWithStep(n) ==
    {cr.Jobs[p[1]].Name : p \in {q \in Range(RecStepPositions) : RecStepAt(q).Name = n}}

\* The positions of the findings about the step named n.
FindingsAbout(n) == {i \in DOMAIN recs : recs[i].Fix[2] = n}

\* C11: DetectDuplicateSteps emits exactly one finding ("duplicate-steps",
\* "medium") for each step name that occurs in at least two jobs of distinct
\* names, with savings 5 dollars x (number of distinct job names - 1), and no
\* finding for a step name confined to one job name.
C11_DuplicateSteps ==
    RecDone("DetectDuplicateSteps") =>
        /\ \A n \in InputStepNames :
              Cardinality(FindingsAbout(n)) =
                 IF Cardinality(JobNamesWithStep(n)) >= 2 THEN 1 ELSE 0
        /\ \A i \in DOMAIN recs :
              /\ recs[i].Fix[2] \in InputStepNames
              /\ recs[i].RuleID = "duplicate-steps"
              /\ recs[i].Severity = "medium"
              /\ recs[i].EstimatedMonthlySavings =
                    Rat(5000 * (Cardinality(JobNamesWithStep(recs[i].Fix[2])) - 1), 1)

\* C11 witness: "Checkout + Install" occurs in the jobs test, build and test, so it is
\* reported once with 5 dollars; "npm install" occurs only in the two jobs
\* named test, which belong to different workflows, and is not reported.
C11_Witness ==
    /\ RecDone("DetectDuplicateSteps")
    /\ Len(cr.Jobs) = 3
    /\ cr.Jobs[1].Name = "test" /\ cr.Jobs[2].Name = "build" /\ cr.Jobs[3].Name = "test"
    /\ cr.Jobs[1].Workflow # cr.Jobs[3].Workflow
    /\ JobNamesWithStep(snCheckoutInstall) = {"test", "build"}
    /\ JobNamesWithStep(snNpmInstall) = {"test"}
    /\ \E j \in {1, 3} : Len(cr.Jobs[j].Steps) = 2
    /\ Len(recs) = 1
    /\ recs[1].Fix[2] = snCheckoutInstall
    /\ recs[1].EstimatedMonthlySavings = Rat(5000, 1)

\* Three distinct job names that share a step give 10 dollars.
DuplicateInThreeJobs ==
    /\ RecDone("DetectDuplicateSteps")
    /\ Cardinality(JobNamesWithStep(snCheckoutInstall)) = 3
    /\ \E i \in DOMAIN recs : /\ recs[i].Fix[2] = snCheckoutInstall
                              /\ recs[i].EstimatedMonthlySavings = Rat(10000, 1)

(***************************************************************************)
(* What the claims say about DetectExpensiveOS.                            *)
(***************************************************************************)
RecJobSeconds(j) == cr.Jobs[j].CompletedAt - cr.Jobs[j].StartedAt

\* The jobs of more than 5 minutes whose labels resolve to the high tier.
HighTierLongJobs ==
    SelectSeq([j \in DOMAIN cr.Jobs |-> j],
              LAMBDA j : /\ TierOfLabels(cr.Jobs[j].Labels) = RateMacOS
                         /\ RecJobSeconds(j) > 300)

\* The jobs of more than 5 minutes that carry a macOS label at any position.
MacLabelLongJobs ==
    SelectSeq([j \in DOMAIN cr.Jobs |-> j],
              LAMBDA j : /\ \E i \in DOMAIN cr.Jobs[j].Labels :
                               TierOfText(cr.Jobs[j].Labels[i]) = RateMacOS
                         /\ RecJobSeconds(j) > 300)

\* The findings are, in order, one per listed job, with rule id "expensive-os",
\* severity "high" and savings minutes x (high rate - low rate) x the factor.
ExpensiveOSFindingsOf(jobs, factor) ==
    /\ Len(recs) = Len(jobs)
    /\ \A i \in DOMAIN recs :
          /\ recs[i].RuleID = "expensive-os"
          /\ recs[i].Severity = "high"
          /\ recs[i].Fix[2] = cr.Jobs[jobs[i]].Name
          /\ recs[i].EstimatedMonthlySavings =
                Rat(RecJobSeconds(jobs[i]) * (RateMacOS - RateLinux) * factor.num,
                    60 * factor.den)

\* C12: DetectExpensiveOS emits exactly one finding ("expensive-os", "high")
\* for each job whose labels indicate the high-cost tier and whose duration
\* is strictly greater than 5 minutes, and none otherwise; the savings are
\* job minutes x (high rate - low rate) x the monthly-scale factor
\* 30 / max(days, 1).
C12_ExpensiveOS ==
    RecDone("DetectExpensiveOS") =>
        ExpensiveOSFindingsOf(HighTierLongJobs, SpecifiedScale(cr.Days))

\* What holds of DetectExpensiveOS: one finding per job of more than 5 minutes
\* with a macOS label at any position, scaled by what monthlyScale returns.
ExpensiveOSAsCoded ==
    RecDone("DetectExpensiveOS") =>
        ExpensiveOSFindingsOf(MacLabelLongJobs, monthlyScale(cr.Days))

\* For a window of at least one day and jobs whose first platform label is the
\* macOS one, C12 holds as stated.
ExpensiveOSPositiveDays ==
    (RecDone("DetectExpensiveOS") /\ cr.Days >= 1
        /\ MacLabelLongJobs = HighTierLongJobs) =>
        ExpensiveOSFindingsOf(HighTierLongJobs, SpecifiedScale(cr.Days))

\* The worked example: 10 minutes on macOS over 30 days give 0.72 dollars.
ExpensiveOSExample ==
    /\ RecDone("DetectExpensiveOS")
    /\ cr.Days = 30
    /\ Len(cr.Jobs) = 1 /\ RecJobSeconds(1) = 600
    /\ Len(recs) = 1
    /\ recs[1].EstimatedMonthlySavings = Rat(720, 1)

\* C12 fails through C9 alone: a macOS job of 10 minutes with a window of 0
\* days is reported with 0.72 dollars instead of 21.60.
ExpensiveOSZeroDays ==
    /\ RecDone("DetectExpensiveOS")
    /\ cr.Days = 0
    /\ Len(cr.Jobs) = 1 /\ cr.Jobs[1].Labels = <<lblMacos13>> /\ RecJobSeconds(1) = 600
    /\ Len(recs) = 1
    /\ recs[1].EstimatedMonthlySavings = Rat(720, 1)
    /\ recs[1].EstimatedMonthlySavings # Rat(21600, 1)

(***************************************************************************)
(* What the claims say about GenerateRecommendations.                      *)
(***************************************************************************)
\* The place of a rule in the fixed order of the detectors.
RuleRank(id) ==
    CASE id = "cache-miss" -> 1
      [] id = "long-checkout" -> 2
      [] id = "duplicate-steps" -> 3
      [] id = "expensive-os" -> 4
      [] OTHER -> 0

\* The findings of one rule, in the order in which they were returned.
FindingsOfRule(id) == SelectSeq(recs, LAMBDA f : f.RuleID = id)

\* C13: GenerateRecommendations returns the concatenation of the outputs of
\* the four detectors in the order cache-miss, long-checkout, duplicate-steps,
\* expensive-os: the rules never appear out of that order, the findings of each
\* rule are an output of its detector, the length is the sum of the four
\* lengths, and an empty job list gives an empty result.
C13_Concatenation ==
    RecDone("GenerateRecommendations") =>
        /\ \A i, j \in DOMAIN recs :
              i < j => RuleRank(recs[i].RuleID) <= RuleRank(recs[j].RuleID)
        /\ \A i \in DOMAIN recs : RuleRank(recs[i].RuleID) # 0
        /\ FindingsOfRule("cache-miss") = DetectCacheMiss(cr)
        /\ FindingsOfRule("long-checkout") = DetectLongCheckout(cr)
        /\ FindingsOfRule("duplicate-steps") \in DetectDuplicateSteps(cr)
        /\ FindingsOfRule("expensive-os") = DetectExpensiveOS(cr)
        /\ \A d \in DetectDuplicateSteps(cr) :
              Len(recs) = Len(DetectCacheMiss(cr)) + Len(DetectLongCheckout(cr))
                          + Len(d) + Len(DetectExpensiveOS(cr))
        /\ cr.Jobs = <<>> => recs = <<>>

\* C13 witness: two jobs (linux and macOS) with one step "Checkout + Install"
\* of 91 seconds each: every step yields a cache-miss and a long-checkout
\* finding, the shared step a duplicate-steps one, the macOS job an
\* expensive-os one.
C13_Witness ==
    /\ RecDone("GenerateRecommendations")
    /\ Len(cr.Jobs) = 2
    /\ \A j \in 1..2 : /\ Len(cr.Jobs[j].Steps) = 1
                       /\ cr.Jobs[j].Steps[1].Name = snCheckoutInstall
    /\ Len(recs) = 6
    /\ [i \in 1..6 |-> recs[i].RuleID] =
          <<"cache-miss", "cache-miss", "long-checkout", "long-checkout",
            "duplicate-steps", "expensive-os">>
    /\ recs[1].Fix[2] = recs[3].Fix[2]

\* An empty job list is among the inputs and gives an empty result.
GenerateOnNoJobs ==
    /\ RecDone("GenerateRecommendations")
    /\ cr.Jobs = <<>>
    /\ recs = <<>>

(***************************************************************************)
(* What the claims say about Analyze, stated on its input (allJobs,        *)
(* lookback) and the returned report (narrative).                          *)
(***************************************************************************)
AnalyzeDone == pc = "done" /\ called = "Analyze"

AnJobSeconds(j) == allJobs[j].CompletedAt - allJobs[j].StartedAt

\* The full cost of a job: its minutes x the rate its labels resolve to.
AnJobCost(j) == Rat(AnJobSeconds(j) * TierOfLabels(allJobs[j].Labels), 60)

FailedJobs ==
    SelectSeq([j \in DOMAIN allJobs |-> j], LAMBDA j : allJobs[j].Conclusion = "failure")

IncludedFailedJobs == SelectSeq(FailedJobs, LAMBDA j : AnJobSeconds(j) > 0)

WasteOfType(t) == SelectSeq(narrative.Waste, LAMBDA w : w.Type = t)

\* The retry items are, in order, one per listed job, each with the job's
\* name and the job's full cost.
RetryItemsOf(failed) ==
    /\ Len(WasteOfType("retry")) = Len(failed)
    /\ \A i \in DOMAIN failed :
          /\ WasteOfType("retry")[i].Detail = <<"Failed: ", allJobs[failed[i]].Name>>
          /\ WasteOfType("retry")[i].Cost = AnJobCost(failed[i])

\* C14 as stated: Analyze emits a waste item of type "retry" for every input
\* job whose outcome is "failure", with the job's full cost.
C14_Original == AnalyzeDone => RetryItemsOf(FailedJobs)

\* C14: Analyze emits a waste item of type "retry" for every input job of
\* positive duration whose outcome is "failure", with the job's full cost
\* (minutes x label-resolved rate, no discount), and none for any other job.
C14_RetryOfIncludedJobs == AnalyzeDone => RetryItemsOf(IncludedFailedJobs)

\* C14 witness: of two failed jobs the first lasts 10 minutes on linux and
\* gets a retry item of 0.08 dollars; the second lasts 0 minutes and gets none.
C14_Witness ==
    /\ AnalyzeDone
    /\ Len(allJobs) = 2
    /\ FailedJobs = <<1, 2>>
    /\ AnJobSeconds(1) = 600 /\ AnJobSeconds(2) = 0
    /\ Len(WasteOfType("retry")) = 1
    /\ WasteOfType("retry")[1].Cost = Rat(80, 1)

\* C15: a window of days <= 0 is treated as 1 by Analyze: the monthly estimate
\* returned with days <= 0 equals the one returned with days = 1, which is
\* TotalCost x 30.
C15_NonPositiveDaysAsOne ==
    (AnalyzeDone /\ lookback <= 0) =>
        /\ narrative.MonthlyCost = RatMul(narrative.TotalCost, 30)
        /\ \A other \in Analyze(allJobs, 1) : narrative.MonthlyCost = other.MonthlyCost

\* What holds of Analyze: the estimate is TotalCost / days x 30 for days >= 1
\* and stays 0 for days <= 0.
MonthlyCostAsCoded ==
    AnalyzeDone =>
        narrative.MonthlyCost =
            IF lookback >= 1
            THEN Rat(narrative.TotalCost.num * 30, narrative.TotalCost.den * lookback)
            ELSE Rat(0, 1)

\* C15 fails on one linux job of 10 minutes with days = 0: the total is 0.08
\* dollars and the estimate 0 instead of 2.40.
MonthlyCostZeroDays ==
    /\ AnalyzeDone
    /\ lookback = 0
    /\ Len(allJobs) = 1 /\ AnJobSeconds(1) = 600 /\ allJobs[1].Labels = <<lblLinux>>
    /\ narrative.TotalCost = Rat(80, 1)
    /\ narrative.MonthlyCost = Rat(0, 1)

(***************************************************************************)
(* What the claims say about two runs on the same input.                   *)
(***************************************************************************)
\* C16: the engine is deterministic: whatever another run of
\* GenerateRecommendations on the same CostReport can return is the sequence
\* this run returned, and whatever another run of Analyze on the same job list
\* and days can return is the Report this run returned, TopSteps and
\* Suggestions included.
C16_Deterministic ==
    /\ RecDone("GenerateRecommendations") =>
          \A other \in GenerateRecommendations(cr) : other = recs
    /\ AnalyzeDone =>
          \A other \in Analyze(allJobs, lookback) : other = narrative

\* The half of C16 about GenerateRecommendations alone.
GenerateDeterministic ==
    RecDone("GenerateRecommendations") =>
        \A other \in GenerateRecommendations(cr) : other = recs

\* The half of C16 about Analyze alone.
AnalyzeDeterministic ==
    AnalyzeDone => \A other \in Analyze(allJobs, lookback) : other = narrative

\* What holds of two runs of GenerateRecommendations: the same findings, the
\* duplicate-steps ones possibly in another order.
GenerateSameFindings ==
    RecDone("GenerateRecommendations") =>
        \A other \in GenerateRecommendations(cr) :
            /\ Len(other) = Len(recs)
            /\ Range(other) = Range(recs)
            /\ \A i \in DOMAIN recs :
                  recs[i].RuleID # "duplicate-steps" => other[i] = recs[i]

\* What holds of two runs of Analyze: everything but TopSteps and Suggestions
\* agrees, and TopSteps has the same minutes at every place.
AnalyzeSameTotals ==
    AnalyzeDone =>
        \A other \in Analyze(allJobs, lookback) :
            /\ other.TotalMinutes = narrative.TotalMinutes
            /\ other.TotalCost = narrative.TotalCost
            /\ other.MonthlyCost = narrative.MonthlyCost
            /\ other.ByWorkflow = narrative.ByWorkflow
            /\ other.Waste = narrative.Waste
            /\ Len(other.TopSteps) = Len(narrative.TopSteps)
            /\ \A i \in DOMAIN narrative.TopSteps :
                  other.TopSteps[i].Min = narrative.TopSteps[i].Min

\* Two step names shared by the jobs build and test: the two duplicate-steps
\* findings come in either order.
TwoOrdersOfDuplicates ==
    /\ RecDone("GenerateRecommendations")
    /\ Len(cr.Jobs) = 2
    /\ \E i \in DOMAIN recs :
          /\ i + 1 \in DOMAIN recs
          /\ recs[i].RuleID = "duplicate-steps"
          /\ recs[i + 1].RuleID = "duplicate-steps"
          /\ recs[i].Fix[2] = snNpmInstall
          /\ recs[i + 1].Fix[2] = snCheckoutInstall
    /\ \E other \in GenerateRecommendations(cr) : other # recs

\* Two step names with equal accumulated minutes: TopSteps lists them in
\* either order.
TwoOrdersOfTopSteps ==
    /\ AnalyzeDone
    /\ Len(narrative.TopSteps) = 2
    /\ narrative.TopSteps[1].Min = narrative.TopSteps[2].Min
    /\ \E other \in Analyze(allJobs, lookback) :
          /\ other.TopSteps[1] = narrative.TopSteps[2]
          /\ other.TopSteps[2] = narrative.TopSteps[1]

(***************************************************************************)
(* What the claims say about TopSteps and Suggestions of Analyze.          *)
(***************************************************************************)
\* Positions <<j, k>> of the included step occurrences: steps of positive
\* duration in jobs of positive duration.
IncludedOccurrences ==
    UNION {{<<j, k>> : k \in {i \in DOMAIN allJobs[j].Steps :
                                allJobs[j].Steps[i].CompletedAt
                                    - allJobs[j].Steps[i].StartedAt > 0}} :
           j \in {i \in DOMAIN allJobs : AnJobSeconds(i) > 0}}

AnStepAt(p) == allJobs[p[1]].Steps[p[2]]

IncludedStepNames == {AnStepAt(p).Name : p \in IncludedOccurrences}

RECURSIVE SecondsOf(_)
SecondsOf(ps) ==
    IF ps = {} THEN 0
    ELSE LET p == CHOOSE q \in ps : TRUE
         IN (AnStepAt(p).CompletedAt - AnStepAt(p).StartedAt) + SecondsOf(ps \ {p})

\* The seconds of all included occurrences of the step name n.
TotalSecondsOf(n) == SecondsOf({p \in IncludedOccurrences : AnStepAt(p).Name = n})

ListedStepNames == {narrative.TopSteps[i].Name : i \in DOMAIN narrative.TopSteps}

\* C17: TopSteps holds one entry per distinct step name, whose minutes are the
\* sum over all included occurrences of that name, in order of non-increasing
\* minutes, cut to at most 10 entries, and no omitted step name has more
\* minutes than a listed one.
C17_TopSteps ==
    AnalyzeDone =>
        /\ \A i, j \in DOMAIN narrative.TopSteps :
              i # j => narrative.TopSteps[i].Name # narrative.TopSteps[j].Name
        /\ \A i \in DOMAIN narrative.TopSteps :
              /\ narrative.TopSteps[i].Name \in IncludedStepNames
              /\ narrative.TopSteps[i].Min =
                    Rat(TotalSecondsOf(narrative.TopSteps[i].Name), 60)
        /\ \A i, j \in DOMAIN narrative.TopSteps :
              i < j => ~RatLess(narrative.TopSteps[i].Min, narrative.TopSteps[j].Min)
        /\ Len(narrative.TopSteps) = Min(10, Cardinality(IncludedStepNames))
        /\ \A n \in IncludedStepNames \ ListedStepNames :
              \A m \in ListedStepNames : TotalSecondsOf(n) <= TotalSecondsOf(m)

\* C17 witness: eleven distinct step names, of which ten are listed; the one
\* left out has 6 minutes, as has the last one listed.
C17_Witness ==
    /\ AnalyzeDone
    /\ Cardinality(IncludedStepNames) = 11
    /\ Len(narrative.TopSteps) = 10
    /\ narrative.TopSteps[10].Min = Rat(6, 1)
    /\ \E n \in IncludedStepNames \ ListedStepNames : TotalSecondsOf(n) = 360
    /\ narrative.TopSteps[1].Min = Rat(36, 1)

\* The minutes of a step name add up over the jobs it occurs in: "npm ci"
\* with 4 minutes in each of three included jobs is listed with 12.
TopStepsAccumulate ==
    /\ AnalyzeDone
    /\ Len(allJobs) = 3
    /\ Cardinality({p \in IncludedOccurrences : AnStepAt(p).Name = snNpmCi}) = 3
    /\ narrative.TopSteps = <<[Name |-> snNpmCi, Min |-> Rat(12, 1)]>>

\* A tie across the cut at 10 makes the membership of TopSteps differ
\* between two runs.
TopStepsMembershipVaries ==
    /\ AnalyzeDone
    /\ \E other \in Analyze(allJobs, lookback) :
          {other.TopSteps[i].Name : i \in DOMAIN other.TopSteps} # ListedStepNames

\* What a suggestion is about, read off its text.
SuggestionKind(sg) ==
    IF sg[1] = "Fix " THEN <<"waste">>
    ELSE IF sg[1] = "'" THEN <<"step", sg[2]>>
    ELSE <<"macos">>

\* Some included job resolved to the high-tier rate.
HighTierJobIncluded ==
    \E j \in DOMAIN allJobs :
        AnJobSeconds(j) > 0 /\ TierOfLabels(allJobs[j].Labels) = RateMacOS

RECURSIVE SumOfCosts(_)
SumOfCosts(items) ==
    IF items = <<>> THEN Rat(0, 1) ELSE RatAdd(Head(items).Cost, SumOfCosts(Tail(items)))

\* The suggestions C18 expects, by kind and in order.
ExpectedSuggestions ==
    (IF SumOfCosts(narrative.Waste).num > 0 THEN <<<<"waste">>>> ELSE <<>>)
    \o (IF HighTierJobIncluded THEN <<<<"macos">>>> ELSE <<>>)
    \o ConcatAll([i \in DOMAIN narrative.TopSteps |->
                    IF narrative.TopSteps[i].Min.num > 30 * narrative.TopSteps[i].Min.den
                    THEN <<<<"step", narrative.TopSteps[i].Name>>>>
                    ELSE <<>>])

\* C18: the Suggestions are, in this order, one waste summary iff the sum of
\* the waste item costs is > 0, one macOS suggestion iff some included job
\* resolved to the high-tier rate, then one suggestion per TopSteps entry with
\* strictly more than 30 accumulated minutes, in TopSteps order; with none of
\* the three the list is empty.
C18_Suggestions ==
    AnalyzeDone =>
        [i \in DOMAIN narrative.Suggestions |-> SuggestionKind(narrative.Suggestions[i])]
            = ExpectedSuggestions

\* C18 witness: a failed macOS job of 10 minutes whose "npm ci" step ran 31
\* minutes and whose "Restore Cache" step ran 4: waste summary, macOS
\* suggestion and one step suggestion, in that order.
C18_Witness ==
    /\ AnalyzeDone
    /\ Len(allJobs) = 1
    /\ allJobs[1].Conclusion = "failure"
    /\ allJobs[1].Labels = <<lblMacos13>>
    /\ Len(narrative.TopSteps) = 2
    /\ narrative.TopSteps[1] = [Name |-> snNpmCi, Min |-> Rat(31, 1)]
    /\ narrative.TopSteps[2].Min = Rat(4, 1)
    /\ [i \in DOMAIN narrative.Suggestions |-> SuggestionKind(narrative.Suggestions[i])]
          = <<<<"waste">>, <<"macos">>, <<"step", snNpmCi>>>>

\* A step total of exactly 30 minutes gets no suggestion, one of 33 does.
SuggestionsAboveThirty ==
    /\ AnalyzeDone
    /\ \E i \in DOMAIN narrative.TopSteps : narrative.TopSteps[i].Min = Rat(30, 1)
    /\ \E i \in DOMAIN narrative.TopSteps : narrative.TopSteps[i].Min = Rat(33, 1)
    /\ \A i \in DOMAIN narrative.Suggestions :
          narrative.Suggestions[i][4] # Rat(30, 1)
    /\ \E i \in DOMAIN narrative.Suggestions : narrative.Suggestions[i][4] = Rat(33, 1)

\* Jobs that ran without waste, macOS or long steps give no suggestion.
NoSuggestions ==
    /\ AnalyzeDone
    /\ \E j \in DOMAIN allJobs : AnJobSeconds(j) > 0
    /\ narrative.Suggestions = <<>>

\* A job labelled windows before macOS is billed at the mid tier and gives no
\* macOS suggestion.
NoMacSuggestionForMidTier ==
    /\ AnalyzeDone
    /\ Len(allJobs) = 1
    /\ allJobs[1].Labels = <<lblWindows, lblMacos13>>
    /\ AnJobSeconds(1) > 0
    /\ narrative.TotalCost = Rat(160, 1)
    /\ \A i \in DOMAIN narrative.Suggestions :
          SuggestionKind(narrative.Suggestions[i]) # <<"macos">>

(***************************************************************************)
(* What the claims say about every finding of the detectors.               *)
(***************************************************************************)
DetectorNames ==
    {"DetectCacheMiss", "DetectLongCheckout", "DetectDuplicateSteps",
     "DetectExpensiveOS", "GenerateRecommendations"}

\* The rule of each detector.
RuleOfDetector(f) ==
    CASE f = "DetectCacheMiss" -> "cache-miss"
      [] f = "DetectLongCheckout" -> "long-checkout"
      [] f = "DetectDuplicateSteps" -> "duplicate-steps"
      [] f = "DetectExpensiveOS" -> "expensive-os"

\* The severity fixed for each rule.
SeverityOfRule(id) ==
    CASE id = "cache-miss" -> "high"
      [] id = "long-checkout" -> "low"
      [] id = "duplicate-steps" -> "medium"
      [] id = "expensive-os" -> "high"
      [] OTHER -> "none"

\* The Fix text is not empty: it has fragments, and its first one has text.
NonEmptyFix(fix) == Len(fix) > 0 /\ fix[1] # ""

\* C19: every finding returned by DetectCacheMiss, DetectLongCheckout,
\* DetectDuplicateSteps, DetectExpensiveOS and GenerateRecommendations, for
\* any job list and any days (days <= 0 included), has strictly positive
\* EstimatedMonthlySavings, a non-empty Fix, and the rule id and severity
\* fixed for its rule.
C19_FindingsWellFormed ==
    (pc = "done" /\ called \in DetectorNames) =>
        \A i \in DOMAIN recs :
            /\ recs[i].EstimatedMonthlySavings.num > 0
            /\ recs[i].EstimatedMonthlySavings.den > 0
            /\ NonEmptyFix(recs[i].Fix)
            /\ RuleRank(recs[i].RuleID) # 0
            /\ recs[i].Severity = SeverityOfRule(recs[i].RuleID)
            /\ called # "GenerateRecommendations" =>
                  recs[i].RuleID = RuleOfDetector(called)

\* C19 witness: with days = 0, GenerateRecommendations returns findings of all
\* four rules, each with positive savings.
C19_Witness ==
    /\ RecDone("GenerateRecommendations")
    /\ cr.Days = 0
    /\ {recs[i].RuleID : i \in DOMAIN recs} =
          {"cache-miss", "long-checkout", "duplicate-steps", "expensive-os"}
    /\ \A i \in DOMAIN recs : recs[i].EstimatedMonthlySavings.num > 0

\* C20: DetectExpensiveOS agrees with the rate resolver: every expensive-os
\* finding is about a job on whose labels RunnerRate returns the high-tier
\* rate, so there are no more findings than such jobs.
C20_AgreesWithRunnerRate ==
    RecDone("DetectExpensiveOS") =>
        /\ \A i \in DOMAIN recs :
              \E j \in DOMAIN cr.Jobs :
                  /\ cr.Jobs[j].Name = recs[i].Fix[2]
                  /\ RunnerRate(cr.Jobs[j].Labels) = RateMacOS
        /\ Len(recs) <= Cardinality({j \in DOMAIN cr.Jobs :
                                       RunnerRate(cr.Jobs[j].Labels) = RateMacOS})

\* C20 fails on a job of 10 minutes labelled windows before macOS: RunnerRate
\* returns the mid-tier rate, and the job is reported with savings priced at
\* the high-tier rate.
ExpensiveOSOnMidTier ==
    /\ RecDone("DetectExpensiveOS")
    /\ Len(cr.Jobs) = 1
    /\ cr.Jobs[1].Labels = <<lblWindows, lblMacos13>>
    /\ RunnerRate(cr.Jobs[1].Labels) = RateWindows
    /\ cr.Days = 30
    /\ Len(recs) = 1
    /\ recs[1].EstimatedMonthlySavings = Rat(720, 1)

\* What holds instead: every finding is about a job with a macOS label at
\* some position.
ExpensiveOSOnSomeMacLabel ==
    RecDone("DetectExpensiveOS") =>
        \A i \in DOMAIN recs :
            \E j \in DOMAIN cr.Jobs :
                /\ cr.Jobs[j].Name = recs[i].Fix[2]
                /\ \E k \in DOMAIN cr.Jobs[j].Labels :
                      TierOfText(cr.Jobs[j].Labels[k]) = RateMacOS

(***************************************************************************)
(* What the claims say about the detectors and jobs of no duration.        *)
(***************************************************************************)
\* The detector input without the jobs that CalculateCost and Analyze skip:
\* those of non-positive duration.
IncludedJobsOnly ==
    [cr EXCEPT !.Jobs = SelectSeq(cr.Jobs, LAMBDA j : j.CompletedAt - j.StartedAt > 0)]

\* C21: the detectors apply the exclusion of the aggregator: a step of a job of
\* non-positive duration never produces a cache-miss or long-checkout finding
\* and never counts toward a duplicate-steps finding, so each detector returns
\* what it returns on the input without those jobs.
C21_SameExclusion ==
    /\ RecDone("DetectCacheMiss") => recs = DetectCacheMiss(IncludedJobsOnly)
    /\ RecDone("DetectLongCheckout") => recs = DetectLongCheckout(IncludedJobsOnly)
    /\ RecDone("DetectDuplicateSteps") => recs \in DetectDuplicateSteps(IncludedJobsOnly)

\* C21 fails for the step detectors: the only step of the input belongs to a
\* job of 0 minutes and is reported.
FindingInSkippedJob ==
    /\ pc = "done" /\ called \in {"DetectCacheMiss", "DetectLongCheckout"}
    /\ Len(cr.Jobs) = 2
    /\ RecJobSeconds(1) = 0 /\ Len(cr.Jobs[1].Steps) = 1
    /\ cr.Jobs[2].Steps = <<>>
    /\ Len(recs) = 1
    /\ recs[1].Fix[2] = cr.Jobs[1].Steps[1].Name

\* C21 fails for DetectDuplicateSteps: a step shared by a job of 10 minutes
\* and a job of -1 minute is reported as duplicated.
DuplicateCountsSkippedJob ==
    /\ RecDone("DetectDuplicateSteps")
    /\ Len(cr.Jobs) = 2
    /\ RecJobSeconds(1) = 600 /\ RecJobSeconds(2) = -60
    /\ Len(recs) = 1
    /\ recs[1].EstimatedMonthlySavings = Rat(5000, 1)

\* When every job of the input has a positive duration C21 holds trivially.
SameExclusionWithoutSkippedJobs ==
    (\A j \in DOMAIN cr.Jobs : RecJobSeconds(j) > 0) => C21_SameExclusion

\* What holds of the step detectors: the duration of the job plays no part;
\* they return the same findings when every job is given 10 minutes.
DetectorsIgnoreJobDuration ==
    LET stretched == [cr EXCEPT !.Jobs = [j \in DOMAIN cr.Jobs |->
                        [cr.Jobs[j] EXCEPT !.StartedAt = 0, !.CompletedAt = 600]]]
    IN /\ RecDone("DetectCacheMiss") => recs = DetectCacheMiss(stretched)
       /\ RecDone("DetectLongCheckout") => recs = DetectLongCheckout(stretched)
       /\ RecDone("DetectDuplicateSteps") => recs \in DetectDuplicateSteps(stretched)

(***************************************************************************)
(* What the claims say about the waste and the total of Analyze.           *)
(***************************************************************************)
\* C22: in the report of Analyze the sum of the costs of all waste items
\* never exceeds TotalCost.
C22_WasteWithinTotal ==
    AnalyzeDone => ~RatLess(narrative.TotalCost, SumOfCosts(narrative.Waste))

\* C22 fails on one failed linux job of 10 minutes with a failed "Restore
\* Cache" step of 3 minutes and an "npm ci" step of 4 minutes: the total
\* is 0.08 dollars, the waste 0.08 (retry) + 0.024 (cache-miss) + 0.016
\* (slow-deps) = 0.12.
WasteExceedsTotal ==
    /\ AnalyzeDone
    /\ Len(allJobs) = 1
    /\ allJobs[1].Conclusion = "failure"
    /\ allJobs[1].Labels = <<lblLinux>>
    /\ AnJobSeconds(1) = 600
    /\ [i \in DOMAIN allJobs[1].Steps |->
          allJobs[1].Steps[i].CompletedAt - allJobs[1].Steps[i].StartedAt] = <<180, 240>>
    /\ [i \in DOMAIN narrative.Waste |-> narrative.Waste[i].Type] =
          <<"retry", "cache-miss", "slow-deps">>
    /\ [i \in DOMAIN narrative.Waste |-> narrative.Waste[i].Cost] =
          <<Rat(80, 1), Rat(24, 1), Rat(16, 1)>>
    /\ narrative.TotalCost = Rat(80, 1)
    /\ SumOfCosts(narrative.Waste) = Rat(120, 1)

\* What holds: the retry items alone stay within TotalCost, since each is the
\* cost of one included job.
RetryWithinTotal ==
    AnalyzeDone => ~RatLess(narrative.TotalCost, SumOfCosts(WasteOfType("retry")))

=============================================================================
